---- MODULE Spec2Model ----
(***************************************************************************)
(* Realtime voice session manager of rag-app: the useRealtimeVoice hook    *)
(* (src/lib/openaiAudio.ts) and the transport establisher / event codec    *)
(* (src/unnamed/part_008, realtimeConnection.ts).                          *)
(*                                                                         *)
(* The hook is a React function component hook.  Every callback it hands   *)
(* out (connect, attemptReconnect, the timer callbacks, the peer           *)
(* connection handlers) closes over the `state` and `isPageVisible`        *)
(* constants of the render that created it.  A callback that runs later    *)
(* (after an await, from a timer, from a transport event) therefore still  *)
(* reads the values of that render: the model carries them as a snapshot   *)
(* `snap` with every in-flight connect, pending timer and installed        *)
(* handler.  Refs (peerConnectionRef, dataChannelRef, mediaStreamRef) are  *)
(* shared mutable cells and are always read live.  updateState() merges a  *)
(* patch into the latest React state.  One action of the model is one      *)
(* macrotask of the browser: the synchronous run of a handler up to its    *)
(* next await.                                                             *)
(***************************************************************************)
EXTENDS Integers, Sequences, FiniteSets, TLC

(***************************************************************************)
(* Bounds of the model.                                                    *)
(***************************************************************************)
MaxPc == 1
MaxConns == 1
MaxTimers == 1
MaxRecPending == 2
MaxLeaked == 1
MaxOrphans == 1
MaxStreak == 6
MaxTranscript == 1
MaxSearches == 1
MaxClients == 3
MaxNow == 3

(***************************************************************************)
(* Program constants.                                                      *)
(***************************************************************************)
maxAttempts == 5
maxLength == 10000
TruncationMarkerLen == 15
DefaultInstructionsLen == 91
RagTemplateLen == 538
baseDelayUnforced == 1000
baseDelayForced == 500
maxDelay == 30000
settleDelay == 100
forceDelay == 500

\* Lengths of the context strings handed to setContext (0 is the empty string).
ContextLens == {0, 9371, 9372}

VARIABLES
  state,              \* React state of the hook (RealtimeVoiceState)
  documentContext,    \* React state: -1 is null, otherwise the length of the text
  isPageVisible,      \* React state
  peerConnectionRef,  \* 0 is null, otherwise a peer connection id
  dataChannelRef,     \* 0 is null, -1 a channel whose peer connection was closed,
                      \* otherwise the id of the open peer connection owning the channel
  mediaStreamRef,     \* 0 is null, 1 is a stream whose track is live
  pcs,                \* the open RTCPeerConnection objects an invocation or handler still uses
  orphanPcs,          \* open peer connections a failed connect() left behind
  orphanMics,         \* how many of them carry a live microphone track
  conns,              \* connect() invocations suspended at an await
  timers,             \* pending setTimeout callbacks of the reconnection code
  recPending,         \* startRecording() invocations awaiting getUserMedia
  leaked,             \* live recording streams no ref points to any more
  log,                \* what the last macrotask did, in code order
  op,                 \* which operation the last macrotask ran
  disconnectRequested,\* history: disconnect() was called and the user has not called connect() since
  streak,             \* history: reconnects scheduled since the last success, user command or
                      \* terminal error (-1 where the specification does not keep it)
  wasConnected,       \* history: a connect() has succeeded
  connectRequested,   \* history: the user has called connect()
  relay,              \* the relay server's session with what its last macrotask sent
  received,           \* the inbound frame the last macrotask was handed, and where
  registry            \* the relay's `sessions` map, its open client sockets and its clock

vars == <<state, documentContext, isPageVisible, peerConnectionRef, dataChannelRef,
          mediaStreamRef, pcs, orphanPcs, orphanMics, conns, timers, recPending,
          leaked, log, op,
          disconnectRequested, streak, wasConnected, connectRequested, relay, received,
          registry>>

\* The part of a render's `state`, `isPageVisible` and `documentContext` that
\* the callbacks created in that render read later (of documentContext, whether
\* it is truthy: neither null nor the empty string).
Snapshot(st, visible, context) ==
  [isConnected |-> st.isConnected, isConnecting |-> st.isConnecting,
   isManuallyDisconnected |-> st.isManuallyDisconnected,
   connectionAttempts |-> st.connectionAttempts, isPageVisible |-> visible,
   hasContext |-> context > 0]

NoSnap == Snapshot([isConnected |-> FALSE, isConnecting |-> FALSE,
                    isManuallyDisconnected |-> FALSE, connectionAttempts |-> 0],
                   FALSE, 0 - 1)

NoHandlers == [installed |-> FALSE, snap |-> NoSnap]

\* An RTCPeerConnection with its one data channel and the microphone track that
\* createRealtimeConnection adds to it.
\*   st  "free" (no such object) or "open"; a closed one leaves the model
\*   mic the microphone track added as a sender is live
\*   dc  readyState of the data channel
\*   ice iceConnectionState ("new", "connected", "disconnected", "failed")
\*   csPending the connectionstatechange event to "failed" is queued
\*   h   the handlers connect() installed, with the snapshot they close over
FreePc == [st |-> "free", mic |-> FALSE, dc |-> "none", ice |-> "new",
           csPending |-> FALSE, h |-> NoHandlers]

NoOp == [name |-> "none", src |-> "none", started |-> FALSE]

\* An inbound frame, by what its handlers look at.
\*   json   JSON.parse accepts the text
\*   object the parsed value is not null
\*   type   its `type` field ("undefined" when it has none)
\*   body   how much of the payload the handler of that type reads is there
EventTypes ==
  {"undefined", "assistant_message", "error", "conversation.item.create",
   "response.output_item.done", "response.output_item.added",
   "response.audio.delta", "response.function_call_arguments.done",
   "response.done", "conversation.item.input_audio_transcription.completed",
   "session.created", "session.updated", "text", "audio"}

\* The payloads the handlers tell apart, by type.
Bodies(type) ==
  IF type = "response.done"
    THEN {"none", "partial", "full", "later"}
  ELSE IF type \in {"response.output_item.done", "response.function_call_arguments.done"}
    THEN {"none", "partial", "full"}
  ELSE IF type \in {"conversation.item.create", "response.audio.delta",
                    "conversation.item.input_audio_transcription.completed"}
    THEN {"none", "full"}
  ELSE {"none"}

InboundFrames ==
  {[json |-> FALSE, object |-> FALSE, type |-> "undefined", body |-> "none"],
   [json |-> TRUE, object |-> FALSE, type |-> "undefined", body |-> "none"]}
  \cup {[json |-> TRUE, object |-> TRUE, type |-> t, body |-> b] :
          t \in EventTypes, b \in {"none", "partial", "full", "later"}}

\* The relay server before any client connected.
\*   sessions the Map `sessions`: session id to the session object, named by
\*            the number of the connection that created it
\*   open     the accepted client sockets that have not closed, each with the
\*            sessionId its handlers closed over
\*   accepted how many client sockets were accepted so far
\*   now      Date.now()
NoRegistry == [sessions |-> <<>>, open |-> {}, accepted |-> 0, now |-> 1]

\* A frame is malformed when it is not JSON or has no `type` field.
Malformed(event) == ~event.json \/ event.type = "undefined"

\* The frames each handler is handed: the malformed ones, the types it has a
\* branch for with the payloads the branch tells apart, and two types it has
\* no branch for.
FramesOf(types) ==
  {e \in InboundFrames :
     /\ e.body \in Bodies(e.type)
     /\ \/ Malformed(e)
        \/ e.type \in types
        \/ e.type \in {"session.created", "session.updated"}}

DataChannelFrames ==
  FramesOf({"assistant_message", "error", "conversation.item.create",
            "response.output_item.done", "response.output_item.added"})

OpenAiFrames ==
  FramesOf({"response.audio.delta", "response.function_call_arguments.done",
            "response.done", "conversation.item.input_audio_transcription.completed"})

ClientFrames == FramesOf({"text", "audio"})

NoFrame == [at |-> "none",
            frame |-> [json |-> FALSE, object |-> FALSE, type |-> "undefined",
                       body |-> "none"]]

\* The relay's session object (transcript as the sequence of its speakers),
\* the document searches in flight and the frames its last macrotask sent.
NoRelay == [session |-> [transcript |-> <<>>, openAiWsReady |-> FALSE],
            searching |-> 0, sent |-> <<>>]

\* The mutable world as one record, so that helpers compose like the code's calls.
\* ok turns FALSE when a step would exceed a bound of the model.
W ==
  [state |-> state, documentContext |-> documentContext, isPageVisible |-> isPageVisible,
   peerConnectionRef |-> peerConnectionRef, dataChannelRef |-> dataChannelRef,
   mediaStreamRef |-> mediaStreamRef, pcs |-> pcs, orphanPcs |-> orphanPcs,
   orphanMics |-> orphanMics, conns |-> conns, timers |-> timers,
   recPending |-> recPending, leaked |-> leaked, log |-> <<>>, op |-> NoOp,
   disconnectRequested |-> disconnectRequested, streak |-> streak,
   wasConnected |-> wasConnected, connectRequested |-> connectRequested,
   relay |-> [relay EXCEPT !.sent = <<>>],
   received |-> NoFrame, registry |-> registry, ok |-> TRUE]

Commit(w) ==
  /\ w.ok
  /\ state' = w.state
  /\ documentContext' = w.documentContext
  /\ isPageVisible' = w.isPageVisible
  /\ peerConnectionRef' = w.peerConnectionRef
  /\ dataChannelRef' = w.dataChannelRef
  /\ mediaStreamRef' = w.mediaStreamRef
  /\ pcs' = w.pcs
  /\ orphanPcs' = w.orphanPcs
  /\ orphanMics' = w.orphanMics
  /\ conns' = w.conns
  /\ timers' = w.timers
  /\ recPending' = w.recPending
  /\ leaked' = w.leaked
  /\ log' = w.log
  /\ op' = w.op
  /\ disconnectRequested' = w.disconnectRequested
  /\ streak' = w.streak
  /\ wasConnected' = w.wasConnected
  /\ connectRequested' = w.connectRequested
  /\ relay' = w.relay
  /\ received' = w.received
  /\ registry' = w.registry

initialState ==
  [isConnected |-> FALSE, isConnecting |-> FALSE, isVoiceMode |-> FALSE,
   isRecording |-> FALSE, error |-> "null", isManuallyDisconnected |-> FALSE,
   connectionAttempts |-> 0]

Init ==
  /\ state = initialState
  /\ documentContext = -1
  /\ isPageVisible = TRUE
  /\ peerConnectionRef = 0
  /\ dataChannelRef = 0
  /\ mediaStreamRef = 0
  /\ pcs = [i \in 1..MaxPc |-> FreePc]
  /\ orphanPcs = 0
  /\ orphanMics = 0
  /\ conns = {}
  /\ timers = {}
  /\ recPending = 0
  /\ leaked = 0
  /\ log = <<>>
  /\ op = NoOp
  /\ disconnectRequested = FALSE
  /\ streak = -1
  /\ wasConnected = FALSE
  /\ connectRequested = FALSE
  /\ relay = NoRelay
  /\ received = NoFrame
  /\ registry = NoRegistry

(***************************************************************************)
(* Helpers of the hook.                                                    *)
(***************************************************************************)
Note(w, k, v) == [w EXCEPT !.log = Append(@, [k |-> k, v |-> v])]

SetOp(w, name, src, started) ==
  [w EXCEPT !.op = [name |-> name, src |-> src, started |-> started]]

\* setState(prev => ({...prev, ...newState}))
updateState(w, patch) ==
  Note([w EXCEPT !.state = [f \in DOMAIN w.state |->
                              IF f \in DOMAIN patch THEN patch[f] ELSE w.state[f]]],
       "updateState", DOMAIN patch)

ClosedChannel == 0 - 1

\* Stops the tracks of the senders of the peer connection in peerConnectionRef,
\* closes it (its data channel closes with it), stops the recording stream.
cleanupConnections(w) ==
  LET p == w.peerConnectionRef
      w1 == IF p # 0
              THEN [w EXCEPT !.pcs[p] = FreePc,
                             !.dataChannelRef = IF @ = p THEN ClosedChannel ELSE @,
                             !.peerConnectionRef = 0]
              ELSE w
  IN IF w1.mediaStreamRef # 0 THEN [w1 EXCEPT !.mediaStreamRef = 0] ELSE w1

NoText == [full |-> 0, kept |-> 0, marker |-> FALSE]

Frame(type) == [type |-> type, instructions |-> NoText, turn_detection |-> "none"]

\* dataChannel.send only when readyState is 'open'
sendRealtimeMessage(w, dc, frame) ==
  IF dc > 0 /\ w.pcs[dc].dc = "open"
    THEN Note(w, "send", [dc |-> dc, frame |-> frame])
    ELSE w

\* str.substring(0, n) of a string of length len keeps Min(n, len) characters
SubstringLen(len, n) == IF n < len THEN n ELSE len

\* A text is described by the length of the untruncated text, how many of its
\* leading characters are kept and whether the marker '... [truncated]' follows.
TextLen(t) == t.kept + (IF t.marker THEN TruncationMarkerLen ELSE 0)

\* Truncate with the comparison off by one: a text of exactly maxLength
\* characters gets the marker too.
TruncateAtLimit(full) ==
  IF full >= maxLength
    THEN [full |-> full, kept |-> SubstringLen(full, maxLength), marker |-> TRUE]
    ELSE [full |-> full, kept |-> full, marker |-> FALSE]

Truncate(full) ==
  IF full > maxLength
    THEN [full |-> full, kept |-> SubstringLen(full, maxLength), marker |-> TRUE]
    ELSE [full |-> full, kept |-> full, marker |-> FALSE]

\* context: -1 is undefined/null, 0 the empty string (both falsy)
FullInstructionsLen(instructionsLen, context) ==
  IF context > 0 THEN RagTemplateLen + instructionsLen + context ELSE instructionsLen

updateSession(w, dc, instructionsLen, isPushToTalk, context) ==
  LET w1 == sendRealtimeMessage(w, dc, Frame("input_audio_buffer.clear"))
      ev == [type |-> "session.update",
             instructions |-> Truncate(FullInstructionsLen(instructionsLen, context)),
             turn_detection |-> IF isPushToTalk THEN "null" ELSE "server_vad"]
  IN sendRealtimeMessage(w1, dc, ev)

MinOf(S) == CHOOSE x \in S : \A y \in S : x <= y

RECURSIVE Pow(_, _)
Pow(b, n) == IF n <= 0 THEN 1 ELSE b * Pow(b, n - 1)

\* Delays are kept in units of 1/2^maxAttempts ms, in which
\* baseDelay * Math.pow(1.5, n) is a whole number for every n <= maxAttempts.
Ms(d) == d * Pow(2, maxAttempts)

\* Math.min(baseDelay * Math.pow(1.5, attemptsToUse), 30000)
reconnectDelay(baseDelay, attemptsToUse) ==
  LET d == baseDelay * Pow(3, attemptsToUse) * Pow(2, maxAttempts - attemptsToUse)
  IN IF d < Ms(maxDelay) THEN d ELSE Ms(maxDelay)

\* setTimeout(cb, delay) of the reconnection code; cb closes over snap.  The
\* model admits MaxTimers pending callbacks, no two of them alike.
AddTimer(w, kind, snap, force, delay) ==
  LET t == [kind |-> kind, snap |-> snap, force |-> force, delay |-> delay] IN
  IF Cardinality(w.timers) >= MaxTimers \/ t \in w.timers
    THEN [w EXCEPT !.ok = FALSE]
    ELSE Note([w EXCEPT !.timers = @ \cup {t}], "setTimeout", kind)

\* History: one more reconnect scheduled (streak is -1 where it is not kept).
Bump(w) ==
  IF w.streak < 0 THEN w
  ELSE IF w.streak >= MaxStreak THEN [w EXCEPT !.ok = FALSE]
  ELSE [w EXCEPT !.streak = @ + 1]

ResetStreak(w) == IF w.streak < 0 THEN w ELSE [w EXCEPT !.streak = 0]

\* attemptReconnect(forceReconnect) of the render whose values are snap
attemptReconnect(w, snap, forceReconnect) ==
  IF (snap.isConnecting \/ snap.isManuallyDisconnected) /\ ~forceReconnect THEN w
  ELSE IF ~snap.isPageVisible /\ ~forceReconnect THEN w
  ELSE LET currentAttempts == snap.connectionAttempts IN
    IF currentAttempts >= maxAttempts /\ ~forceReconnect
      THEN ResetStreak(updateState(w, [connectionAttempts |-> 0,
                                       error |-> "reconnect_failed"]))
      ELSE LET w1 == updateState(w, [connectionAttempts |->
                                       IF forceReconnect THEN 1 ELSE currentAttempts + 1])
               w2 == IF forceReconnect THEN cleanupConnections(w1) ELSE w1
               attemptsToUse == IF forceReconnect THEN 0 ELSE currentAttempts
               baseDelay == IF forceReconnect THEN baseDelayForced ELSE baseDelayUnforced
           IN Bump(AddTimer(w2, "reconnect", snap, forceReconnect,
                            reconnectDelay(baseDelay, attemptsToUse)))

(***************************************************************************)
(* connect()                                                               *)
(***************************************************************************)
\* The synchronous head of connect() of the render whose values are snap.
\* The model admits MaxConns suspended invocations, no two of them alike.
connect(w, snap, src) ==
  IF snap.isConnecting \/ snap.isConnected
    THEN SetOp(w, "connect", src, FALSE)
    ELSE LET w1 == cleanupConnections(w)
             w2 == updateState(w1, [isConnecting |-> TRUE,
                                    isManuallyDisconnected |-> FALSE, error |-> "null"])
             w3 == Note(w2, "onStatusChange", FALSE)
             c == [snap |-> snap, stage |-> "key", pc |-> 0, src |-> src]
         IN IF Cardinality(w.conns) >= MaxConns \/ c \in w.conns
              THEN [w3 EXCEPT !.ok = FALSE]
              ELSE SetOp([w3 EXCEPT !.conns = @ \cup {c}], "connect", src, TRUE)

\* createRealtimeConnection throws after it created the peer connection:
\* nothing closes it or stops its track, and no reference to it is left.
Abandon(w, p) ==
  IF p = 0 THEN w
  ELSE [w EXCEPT !.pcs[p] = FreePc,
                 !.orphanPcs = @ + 1,
                 !.orphanMics = @ + (IF w.pcs[p].mic THEN 1 ELSE 0),
                 !.ok = (w.orphanPcs < MaxOrphans)]

\* The catch block of connect(); c is the suspended invocation.
connectCatch(w, c) ==
  LET w1 == updateState(Abandon(w, c.pc), [isConnecting |-> FALSE, isConnected |-> FALSE,
                                           error |-> "connect"])
      w2 == Note(w1, "onError", "connect")
      w3 == [w2 EXCEPT !.conns = @ \ {c}]
  IN IF ~c.snap.isManuallyDisconnected THEN attemptReconnect(w3, c.snap, FALSE) ELSE w3

User(w) == ResetStreak(w)

\* The user calls connect() of the latest render.
UserConnect ==
  /\ Commit([User(connect(W, Snapshot(state, isPageVisible, documentContext), "user"))
               EXCEPT !.disconnectRequested = FALSE, !.connectRequested = TRUE])

\* fetchEphemeralKey() returns a key: createRealtimeConnection creates the
\* peer connection and its data channel and awaits the microphone.
KeyFetched ==
  \E c \in conns :
    /\ c.stage = "key"
    /\ LET free == {i \in DOMAIN pcs : pcs[i].st = "free"} IN
       /\ free # {}
       /\ LET p == MinOf(free) IN
          Commit(SetOp([W EXCEPT
              !.pcs[p] = [FreePc EXCEPT !.st = "open", !.dc = "connecting"],
              !.conns = (@ \ {c}) \cup {[c EXCEPT !.stage = "mic", !.pc = p]}],
            "fetchEphemeralKey", "connect", TRUE))

\* fetchEphemeralKey() fails: it reports the error and returns null, connect() throws.
KeyFailed ==
  \E c \in conns :
    /\ c.stage = "key"
    /\ Commit(SetOp(connectCatch(Note(W, "onError", "key"), c),
                    "fetchEphemeralKey", "connect", FALSE))

\* requestMicrophonePermission() and getUserMedia() of createRealtimeConnection
\* succeed: the probe stream is stopped at once, the second stream's track is
\* added to the peer connection; the offer is made and sent.
MicGranted ==
  \E c \in conns :
    /\ c.stage = "mic"
    /\ Commit(SetOp([W EXCEPT !.pcs[c.pc].mic = TRUE,
                              !.conns = (@ \ {c}) \cup {[c EXCEPT !.stage = "sdp"]}],
                    "getUserMedia", "connect", TRUE))

\* The microphone is denied, missing or in use: createRealtimeConnection throws.
MicDenied ==
  \E c \in conns :
    /\ c.stage = "mic"
    /\ Commit(SetOp(connectCatch(W, c), "getUserMedia", "connect", FALSE))

\* The POST of the SDP offer is answered.
SdpAnswered ==
  \E c \in conns :
    /\ c.stage = "sdp"
    /\ Commit(SetOp([W EXCEPT !.conns = (@ \ {c}) \cup {[c EXCEPT !.stage = "ice"]}],
                    "sdp", "connect", TRUE))

\* The POST of the SDP offer is refused: createRealtimeConnection throws.
SdpRejected ==
  \E c \in conns :
    /\ c.stage = "sdp"
    /\ Commit(SetOp(connectCatch(W, c), "sdp", "connect", FALSE))

\* waitForIceConnection() settles (it resolves on success, on failure and on
\* timeout alike); connect() stores the handles, marks the session connected
\* and installs its handlers.  When ICE failed, the connectionstatechange
\* event of the same failure is dispatched either before the handlers are
\* installed (and is lost) or after (late).
IceSettled ==
  \E c \in conns, ice \in {"connected", "failed", "new"}, late \in BOOLEAN :
    /\ c.stage = "ice"
    /\ late => ice = "failed"
    /\ LET w1 == [W EXCEPT !.pcs[c.pc].ice = ice,
                           !.pcs[c.pc].csPending = late,
                           !.peerConnectionRef = c.pc,
                           !.dataChannelRef = c.pc,
                           !.conns = @ \ {c}]
           w2 == updateState(w1, [isConnecting |-> FALSE, isConnected |-> TRUE])
           w3 == Note(w2, "onStatusChange", TRUE)
           w4 == [w3 EXCEPT !.pcs[c.pc].h = [installed |-> TRUE, snap |-> c.snap],
                            !.wasConnected = TRUE]
       IN Commit(SetOp(ResetStreak(w4), "connected", "connect", TRUE))

(***************************************************************************)
(* Timers of the reconnection code                                         *)
(***************************************************************************)
\* setTimeout(() => {...}, delay) of attemptReconnect fires.
ReconnectTimer ==
  \E t \in timers :
    /\ t.kind = "reconnect"
    /\ LET w0 == [W EXCEPT !.timers = @ \ {t}] IN
       IF (~t.snap.isConnected /\ ~t.snap.isConnecting /\ ~t.snap.isManuallyDisconnected)
           \/ t.force
         THEN LET w1 == cleanupConnections(w0)
                  w2 == updateState(w1, [isConnected |-> FALSE, isConnecting |-> FALSE,
                                         error |-> "null"])
              IN Commit(SetOp(AddTimer(w2, "settle", t.snap, t.force, Ms(settleDelay)),
                              "reconnectTimer", "timer", TRUE))
         ELSE Commit(SetOp(w0, "reconnectTimer", "timer", FALSE))

\* setTimeout(() => connect(), 100) fires.
SettleTimer ==
  \E t \in timers :
    /\ t.kind = "settle"
    /\ Commit(connect([W EXCEPT !.timers = @ \ {t}], t.snap, "timer"))

\* setTimeout(() => attemptReconnect(true), 500) of onconnectionstatechange fires.
ForceTimer ==
  \E t \in timers :
    /\ t.kind = "force"
    /\ Commit(SetOp(attemptReconnect([W EXCEPT !.timers = @ \ {t}], t.snap, TRUE),
                    "forceTimer", "timer", TRUE))

(***************************************************************************)
(* Transport events                                                        *)
(***************************************************************************)
\* The ICE connection state of an open peer connection changes; the handler
\* connect() installed runs.
IceStateChange ==
  \E p \in DOMAIN pcs, ice \in {"connected", "disconnected", "failed"} :
    /\ pcs[p].st = "open"
    /\ pcs[p].h.installed
    /\ pcs[p].ice # "failed"
    /\ pcs[p].ice # ice
    /\ LET snap == pcs[p].h.snap
           w0 == [W EXCEPT !.pcs[p].ice = ice,
                           !.pcs[p].csPending = (ice = "failed")]
       IN IF ice \in {"disconnected", "failed", "closed"} /\ ~snap.isManuallyDisconnected
            THEN LET w1 == updateState(w0, [isConnected |-> FALSE])
                     w2 == Note(w1, "onStatusChange", FALSE)
                 IN Commit(SetOp(attemptReconnect(w2, snap, FALSE),
                                 "oniceconnectionstatechange", "transport", TRUE))
            ELSE Commit(SetOp(w0, "oniceconnectionstatechange", "transport", FALSE))

\* The connection state of an open peer connection becomes 'failed'.
ConnectionFailed ==
  \E p \in DOMAIN pcs :
    /\ pcs[p].st = "open"
    /\ pcs[p].h.installed
    /\ pcs[p].csPending
    /\ LET snap == pcs[p].h.snap
           w0 == [W EXCEPT !.pcs[p].csPending = FALSE]
       IN IF ~snap.isManuallyDisconnected
            THEN LET w1 == updateState(w0, [isConnected |-> FALSE])
                     w2 == Note(w1, "onStatusChange", FALSE)
                 IN Commit(SetOp(AddTimer(w2, "force", snap, TRUE, Ms(forceDelay)),
                                 "onconnectionstatechange", "transport", TRUE))
            ELSE Commit(SetOp(w0, "onconnectionstatechange", "transport", FALSE))

\* The data channel of a connected peer connection opens.
DataChannelOpen ==
  \E p \in DOMAIN pcs :
    /\ pcs[p].st = "open"
    /\ pcs[p].ice = "connected"
    /\ pcs[p].dc = "connecting"
    /\ Commit(SetOp([W EXCEPT !.pcs[p].dc = "open"], "dataChannelOpen", "transport", TRUE))

(***************************************************************************)
(* Commands of the user (they run the callbacks of the latest render)      *)
(***************************************************************************)
disconnect(w) ==
  LET w1 == updateState(w, [isManuallyDisconnected |-> TRUE, isConnected |-> FALSE,
                            isConnecting |-> FALSE])
      w2 == cleanupConnections(w1)
  IN Note(w2, "onStatusChange", FALSE)

Disconnect ==
  /\ Commit(SetOp([User(disconnect(W)) EXCEPT !.disconnectRequested = TRUE],
                  "disconnect", "user", TRUE))

\* st is the `state` of the render the callback belongs to
stopRecording(w, st) ==
  IF ~st.isRecording THEN w
  ELSE LET w1 == IF w.mediaStreamRef # 0 THEN [w EXCEPT !.mediaStreamRef = 0] ELSE w
           w2 == updateState(w1, [isRecording |-> FALSE])
       IN IF w2.dataChannelRef # 0
            THEN sendRealtimeMessage(
                   sendRealtimeMessage(w2, w2.dataChannelRef,
                                       Frame("input_audio_buffer.commit")),
                   w2.dataChannelRef, Frame("response.create"))
            ELSE w2

StopRecording ==
  /\ Commit(SetOp(User(stopRecording(W, state)), "stopRecording", "user", state.isRecording))

\* toggleVoiceMode without the stop of a running recording.
toggleVoiceModeOnlyFlips(w, st) ==
  updateState(w, [isVoiceMode |-> ~st.isVoiceMode])

toggleVoiceMode(w, st) ==
  LET w1 == updateState(w, [isVoiceMode |-> ~st.isVoiceMode]) IN
  IF st.isVoiceMode /\ st.isRecording THEN stopRecording(w1, st) ELSE w1

ToggleVoiceMode ==
  /\ Commit(SetOp(User(toggleVoiceMode(W, state)), "toggleVoiceMode", "user", TRUE))

setContext(w, st, context) ==
  LET w1 == [w EXCEPT !.documentContext = context] IN
  IF st.isConnected /\ w1.dataChannelRef # 0
    THEN updateSession(w1, w1.dataChannelRef, DefaultInstructionsLen, ~st.isVoiceMode, context)
    ELSE w1

SetContext ==
  /\ \E context \in ContextLens :
       Commit(SetOp(User(setContext(W, state, context)), "setContext", "user", TRUE))

\* The synchronous head of startRecording(): the guards, then getUserMedia is awaited.
StartRecording ==
  IF ~state.isConnected
    THEN Commit(SetOp(User(Note(W, "onError", "not_connected")),
                      "startRecording", "user", FALSE))
  ELSE IF state.isRecording
    THEN Commit(SetOp(User(W), "startRecording", "user", FALSE))
  ELSE /\ recPending < MaxRecPending
       /\ Commit(SetOp(User([W EXCEPT !.recPending = @ + 1]),
                       "startRecording", "user", TRUE))

\* The catch block of startRecording().
startRecordingCatch(w) ==
  LET w1 == updateState(w, [isRecording |-> FALSE, error |-> "mic"])
      w2 == Note(w1, "onError", "mic")
  IN IF w2.mediaStreamRef # 0 THEN [w2 EXCEPT !.mediaStreamRef = 0] ELSE w2

\* getUserMedia() of startRecording() fails.
RecordingDenied ==
  /\ recPending > 0
  /\ Commit(SetOp(startRecordingCatch([W EXCEPT !.recPending = @ - 1]),
                  "getUserMedia", "startRecording", FALSE))

\* getUserMedia() of startRecording() returns a stream.
RecordingGranted ==
  /\ recPending > 0
  /\ LET w0 == [W EXCEPT !.recPending = @ - 1]
         w1 == IF w0.mediaStreamRef # 0
                 THEN [w0 EXCEPT !.leaked = @ + 1, !.ok = (w0.leaked < MaxLeaked)]
                 ELSE w0
         w2 == updateState([w1 EXCEPT !.mediaStreamRef = 1],
                           [isRecording |-> TRUE, error |-> "null"])
         dc == w2.dataChannelRef
     IN IF dc = 0 \/ dc = ClosedChannel \/ w2.pcs[dc].dc # "open"
          THEN Commit(SetOp(startRecordingCatch(w2), "getUserMedia", "startRecording", FALSE))
          ELSE Commit(SetOp(sendRealtimeMessage(w2, dc, Frame("input_audio_buffer.clear")),
                            "getUserMedia", "startRecording", TRUE))

\* document 'visibilitychange': handleVisibilityChange of the latest render runs.
\* The connect it calls belongs to that render, whose isPageVisible is the old value.
VisibilityChange ==
  LET isVisible == ~isPageVisible
      w1 == [W EXCEPT !.isPageVisible = isVisible]
  IN IF isVisible /\ ~state.isConnected /\ ~state.isConnecting
          /\ state.isManuallyDisconnected = FALSE
       THEN Commit(connect(w1, Snapshot(state, isPageVisible, documentContext), "visibility"))
       ELSE Commit(SetOp(w1, "visibilitychange", "visibility", FALSE))

(***************************************************************************)
(* Inbound frames: dataChannel.onmessage of the hook, and the relay        *)
(***************************************************************************)
\* data.type.startsWith('response.output')
StartsWithResponseOutput(type) ==
  type \in {"response.output_item.done", "response.output_item.added"}

\* A catch block that reports what the try block threw to the caller.
onmessageCatchReports(w) ==
  SetOp(Note(w, "onError", "parse"), "onmessage", "transport", FALSE)

\* The catch block of dataChannel.onmessage only logs what the try block threw.
onmessageCatch(w) == SetOp(w, "onmessage", "transport", FALSE)

\* dataChannel.onmessage as connect() installs it; snap is the render of that
\* connect().  For 'conversation.item.create' body "full" is an item of type
\* 'user_input_transcription'; for 'response.output_item.done' body "partial"
\* is a message item with audio content, "full" one with audio and text.
onmessage(w, snap, event) ==
  LET done(x) == SetOp(x, "onmessage", "transport", TRUE) IN
  IF ~event.json THEN onmessageCatch(w)                      \* JSON.parse throws
  ELSE IF ~event.object THEN onmessageCatch(w)               \* null.type throws
  ELSE IF event.type = "assistant_message" THEN done(Note(w, "onMessage", "content"))
  ELSE IF event.type = "error" THEN done(Note(w, "onError", "message"))
  ELSE IF event.type = "conversation.item.create" /\ event.body = "full" THEN done(w)
  ELSE IF event.type = "undefined" THEN onmessageCatch(w)    \* undefined.startsWith throws
  ELSE IF StartsWithResponseOutput(event.type)
    THEN LET w1 == IF event.type = "response.output_item.done" /\ event.body = "full"
                     THEN LET m == Note(w, "onMessage", "text") IN
                          IF snap.hasContext
                            THEN Note(m, "onMessage", "rag-indicator")
                            ELSE m
                     ELSE w
             w2 == IF event.type = "response.output_item.done" /\ event.body # "none"
                     THEN Note(w1, "notification", event.body)
                     ELSE w1
         IN done(Note(w2, "forcePlay", TRUE))
  ELSE done(w)

\* A frame arrives on the open data channel of a peer connection whose
\* handlers connect() has installed.
DataChannelMessage ==
  \E p \in DOMAIN pcs, event \in DataChannelFrames :
    /\ pcs[p].st = "open"
    /\ pcs[p].h.installed
    /\ pcs[p].dc = "open"
    /\ Commit(onmessage([W EXCEPT !.received = [at |-> "dataChannel", frame |-> event]],
                        pcs[p].h.snap, event))

LOG_EVENT_TYPES ==
  {"response.content.done", "response.done", "input_audio_buffer.speech_stopped",
   "input_audio_buffer.speech_started", "session.created", "response.text.done",
   "conversation.item.input_audio_transcription.completed"}

\* ws.send / openAiWs.send of the relay
RelaySend(w, to, type) ==
  [w EXCEPT !.relay.sent = Append(@, [to |-> to, type |-> type])]

\* session.transcript += `${speaker}: ...`
AppendTranscript(w, speaker) ==
  IF Len(w.relay.session.transcript) >= MaxTranscript
    THEN [w EXCEPT !.ok = FALSE]
    ELSE [w EXCEPT !.relay.session.transcript = Append(@, speaker)]

sendFunctionOutput(w) ==
  RelaySend(RelaySend(w, "openai", "conversation.item.create"), "openai", "response.create")

\* openAiWs.on('open')
OpenAiWsOpen ==
  /\ ~relay.session.openAiWsReady
  /\ Commit(RelaySend([W EXCEPT !.relay.session.openAiWsReady = TRUE],
                      "openai", "session.update"))

\* openAiWs.on('message'), up to its first await.  An exception inside the try
\* ends the handler with what it had done by then.  Body of
\* 'response.audio.delta': "none" has no delta; of
\* 'response.function_call_arguments.done': "none" names search_document with
\* arguments that are not JSON, "partial" names another function, "full" names
\* search_document with arguments that parse; of
\* 'response.done': "none" has no response, "partial" a response without a
\* transcript, "full" one with a transcript in its first output item, "later"
\* one with a transcript in another output item only (the handler looks at
\* output[0]); of the transcription event: "none" has no transcript.
openAiMessage(w, event) ==
  IF ~event.json \/ ~event.object THEN w
  ELSE
    LET w1 == IF event.type = "response.audio.delta" /\ event.body # "none"
                THEN RelaySend(w, "client", "audio")
                ELSE w
    IN
    IF event.type = "response.function_call_arguments.done"
      THEN IF event.body = "full"
             THEN [w1 EXCEPT !.relay.searching = @ + 1,
                             !.ok = (w.relay.searching < MaxSearches)]
             ELSE w1
    ELSE IF event.type = "response.done" /\ event.body = "none" THEN w1
    ELSE
      LET w2 == IF event.type = "response.done" /\ event.body = "full"
                  THEN AppendTranscript(w1, "Agent")
                  ELSE w1
          w3 == IF event.type = "conversation.item.input_audio_transcription.completed"
                    /\ event.body # "none"
                  THEN AppendTranscript(w2, "User")
                  ELSE w2
      IN IF event.type \in LOG_EVENT_TYPES
           THEN RelaySend(w3, "client", event.type)
           ELSE w3

\* A frame of the OpenAI socket arrives at the relay.
OpenAiWsMessage ==
  \E event \in OpenAiFrames :
    /\ relay.session.openAiWsReady
    /\ Commit(openAiMessage([W EXCEPT !.received = [at |-> "openAiWs", frame |-> event]],
                            event))

\* The document search of a search_document call settles: with content, with
\* no such document, or with an error; each ends in sendFunctionOutput.
SearchSettled ==
  \E outcome \in {"found", "nodocument", "error"} :
    /\ relay.searching > 0
    /\ Commit(sendFunctionOutput([W EXCEPT !.relay.searching = @ - 1]))

\* ws.on('message'): a frame of the client arrives at the relay.
clientMessage(w, event) ==
  IF ~w.relay.session.openAiWsReady THEN w
  ELSE IF ~event.json \/ ~event.object THEN w
  ELSE IF event.type = "text"
    THEN RelaySend(RelaySend(w, "openai", "conversation.item.create"),
                   "openai", "response.create")
  ELSE IF event.type = "audio" THEN RelaySend(w, "openai", "input_audio_buffer.append")
  ELSE w

WsMessage ==
  \E event \in ClientFrames :
    /\ Commit(clientMessage([W EXCEPT !.received = [at |-> "ws", frame |-> event]], event))

(***************************************************************************)
(* The relay's session registry                                            *)
(***************************************************************************)
\* sessions.set(sessionId, session)
MapSet(map, key, value) ==
  [k \in DOMAIN map \cup {key} |-> IF k = key THEN value ELSE map[k]]

\* sessions.delete(sessionId)
MapDelete(map, key) == [k \in DOMAIN map \ {key} |-> map[k]]

\* wss.on('connection'): a client socket is accepted.  Without documentId or
\* userId it is answered with an error and closed; otherwise its session is
\* registered under `session_${Date.now()}`.
Connection ==
  \E hasParams \in BOOLEAN :
    /\ registry.accepted < MaxClients
    /\ LET id == registry.accepted + 1
           sessionId == registry.now
           w0 == [W EXCEPT !.registry.accepted = id]
       IN IF ~hasParams
            THEN Commit(SetOp(RelaySend(w0, "client", "error"), "connection", "relay", FALSE))
            ELSE Commit(SetOp([w0 EXCEPT
                                 !.registry.sessions = MapSet(@, sessionId, id),
                                 !.registry.open = @ \cup {[id |-> id, sessionId |-> sessionId]}],
                              "connection", "relay", TRUE))

\* ws.on('close') of an accepted client socket.
Close ==
  \E c \in registry.open :
    /\ Commit(SetOp([W EXCEPT !.registry.sessions = MapDelete(@, c.sessionId),
                              !.registry.open = @ \ {c}],
                    "close", "relay", TRUE))

\* A millisecond passes.
Tick ==
  /\ registry.now < MaxNow
  /\ Commit([W EXCEPT !.registry.now = @ + 1])

(***************************************************************************)
(* Specifications                                                          *)
(***************************************************************************)
\* Spec: the connection lifecycle.  connect, its failures, the reconnection
\* policy, transport loss, disconnect and page visibility.  Recording, voice
\* mode and context never change a value this part of the hook reads.
Next ==
  \/ UserConnect
  \/ KeyFetched
  \/ KeyFailed
  \/ MicGranted
  \/ MicDenied
  \/ SdpAnswered
  \/ SdpRejected
  \/ IceSettled
  \/ ReconnectTimer
  \/ SettleTimer
  \/ ForceTimer
  \/ IceStateChange
  \/ ConnectionFailed
  \/ Disconnect
  \/ VisibilityChange

Spec == Init /\ [][Next]_vars

\* SpecRetry: an endpoint no connection attempt gets through to, with the
\* history counter `streak` kept.
InitRetry ==
  /\ state = initialState
  /\ documentContext = -1
  /\ isPageVisible = TRUE
  /\ peerConnectionRef = 0
  /\ dataChannelRef = 0
  /\ mediaStreamRef = 0
  /\ pcs = [i \in 1..MaxPc |-> FreePc]
  /\ orphanPcs = 0
  /\ orphanMics = 0
  /\ conns = {}
  /\ timers = {}
  /\ recPending = 0
  /\ leaked = 0
  /\ log = <<>>
  /\ op = NoOp
  /\ disconnectRequested = FALSE
  /\ streak = 0
  /\ wasConnected = FALSE
  /\ connectRequested = FALSE
  /\ relay = NoRelay
  /\ received = NoFrame
  /\ registry = NoRegistry

NextRetry ==
  \/ UserConnect
  \/ KeyFetched
  \/ KeyFailed
  \/ MicGranted
  \/ MicDenied
  \/ SdpRejected
  \/ ReconnectTimer
  \/ SettleTimer
  \/ Disconnect
  \/ VisibilityChange

SpecRetry == InitRetry /\ [][NextRetry]_vars

\* SpecVoice: sessions whose connection attempts succeed and whose transport
\* stays up, with recording, voice mode and context.
VoiceSteps ==
  \/ KeyFetched
  \/ MicGranted
  \/ SdpAnswered
  \/ IceSettled
  \/ DataChannelOpen
  \/ Disconnect
  \/ StartRecording
  \/ RecordingGranted
  \/ RecordingDenied
  \/ StopRecording
  \/ ToggleVoiceMode
  \/ SetContext

NextVoice ==
  \/ UserConnect
  \/ VoiceSteps

SpecVoice == Init /\ [][NextVoice]_vars

\* SpecSession: SpecVoice with a user who calls connect() only when no earlier
\* invocation of connect() is still suspended.
NextSession ==
  \/ UserConnect /\ Cardinality(conns') <= 1
  \/ VoiceSteps

SpecSession == Init /\ [][NextSession]_vars

\* SpecInbound: sessions whose connection attempts succeed, with the frames
\* that arrive on the data channel and at the relay.
NextInbound ==
  \/ UserConnect /\ Cardinality(conns') <= 1
  \/ KeyFetched
  \/ MicGranted
  \/ SdpAnswered
  \/ IceSettled
  \/ DataChannelOpen
  \/ Disconnect
  \/ SetContext
  \/ DataChannelMessage
  \/ OpenAiWsOpen
  \/ OpenAiWsMessage
  \/ SearchSettled
  \/ WsMessage

SpecInbound == Init /\ [][NextInbound]_vars

\* SpecRegistry: the relay server accepting and losing client sockets.
NextRegistry ==
  \/ Connection
  \/ Close
  \/ Tick

SpecRegistry == Init /\ [][NextRegistry]_vars

(***************************************************************************)
(* Properties                                                              *)
(***************************************************************************)
\* Microphone tracks that are live: those of the open peer connections, those
\* of the peer connections failed attempts left behind, the recording stream
\* in mediaStreamRef and the recording streams no ref points to.
LiveTracks ==
  Cardinality({p \in DOMAIN pcs : pcs[p].st = "open" /\ pcs[p].mic})
    + orphanMics + mediaStreamRef + leaked

\* C1: a connect() call made while the session is connected or while a
\* connection attempt is in flight is a no-op: it starts no connection attempt
\* (the started call sets isConnecting and leaves isConnected as it found it,
\* so a started call in a connected state was made while connected).
C1_ConnectWhileConnectedIsNoOp ==
  (op.name = "connect" /\ op.started) =>
    (~state.isConnected /\ Cardinality(conns) <= 1)

\* C2: after disconnect(), and until the user calls connect() again, no
\* connect() issued by a timer, a transport handler or the visibility observer
\* starts a connection attempt.
C2_NoAttemptAfterDisconnect ==
  disconnectRequested => ~(op.name = "connect" /\ op.started)

\* C3: in the state disconnect() leaves, connected is false, recording is
\* false and manuallyDisconnected is true.
C3_DisconnectResult ==
  op.name = "disconnect" =>
    (~state.isConnected /\ ~state.isRecording /\ state.isManuallyDisconnected)

\* C4: after disconnect(), once every connect() and startRecording() that was
\* in flight has settled and no timer is pending, no microphone track is live.
C4_NoLiveTrackAfterDisconnect ==
  (disconnectRequested /\ conns = {} /\ recPending = 0 /\ timers = {}) =>
    LiveTracks = 0

\* C5: in every reachable state recording implies connected.
C5_RecordingImpliesConnected ==
  state.isRecording => state.isConnected

\* C6: in every reachable state isConnecting and isConnected are not both true.
C6_ConnectingExcludesConnected ==
  ~(state.isConnecting /\ state.isConnected)

\* C7: when connect() succeeds while a document context is set, a
\* session.update frame carrying that context is sent on the data channel
\* before the session is marked connected.
C7_ContextAppliedBeforeConnected ==
  (op.name = "connected" /\ documentContext > 0) =>
    \E i, j \in DOMAIN log :
      /\ i < j
      /\ log[i].k = "send"
      /\ log[i].v.frame.type = "session.update"
      /\ log[i].v.frame.instructions.full =
           FullInstructionsLen(DefaultInstructionsLen, documentContext)
      /\ log[j].k = "updateState"
      /\ "isConnected" \in log[j].v

\* C8: setContext(text) on a connected session whose data channel is open
\* sends exactly one session.update frame; its instructions are those built
\* from text, at most maxLength characters of them followed by the marker, so
\* no longer than maxLength plus the length of the marker, and they are the
\* untruncated instructions when these are at most maxLength characters long.
C8_SetContextSendsOneUpdate ==
  (/\ op.name = "setContext"
   /\ state.isConnected
   /\ dataChannelRef > 0
   /\ pcs[dataChannelRef].dc = "open") =>
    LET updates == {i \in DOMAIN log : /\ log[i].k = "send"
                                       /\ log[i].v.frame.type = "session.update"}
    IN /\ Cardinality(updates) = 1
       /\ \A i \in updates :
            LET t == log[i].v.frame.instructions IN
            /\ log[i].v.dc = dataChannelRef
            /\ t.full = FullInstructionsLen(DefaultInstructionsLen, documentContext)
            /\ TextLen(t) <= maxLength + TruncationMarkerLen
            /\ t.full <= maxLength => (t.kept = t.full /\ ~t.marker)

\* C8 witness: setContext on a connected session with an open data channel
\* sent instructions of exactly maxLength characters, untruncated.
C8_Witness ==
  /\ op.name = "setContext"
  /\ state.isConnected
  /\ dataChannelRef > 0
  /\ pcs[dataChannelRef].dc = "open"
  /\ \E i \in DOMAIN log :
       /\ log[i].k = "send"
       /\ log[i].v.frame.type = "session.update"
       /\ log[i].v.frame.instructions = [full |-> maxLength, kept |-> maxLength,
                                         marker |-> FALSE]

C10_AtMostMaxAttemptsReconnects ==
  /\ state.connectionAttempts <= maxAttempts
  /\ streak <= maxAttempts

\* C11: while the page is visible and no user command intervenes, the failure
\* of the attempt made by the last of maxAttempts scheduled reconnects ends the
\* retries: no further timer is set, and the exhaustion is reported through
\* onError exactly once.
C11_ExhaustionStopsAndSurfacesOnce ==
  [][(/\ streak = maxAttempts
      /\ timers = {}
      /\ isPageVisible
      /\ op'.name \in {"fetchEphemeralKey", "getUserMedia", "sdp"}
      /\ op'.src = "connect"
      /\ ~op'.started) =>
       /\ timers' = {}
       /\ Cardinality({i \in DOMAIN log' : /\ log'[i].k = "onError"
                                           /\ log'[i].v = "reconnect_failed"}) = 1]_vars

\* C12: the reconnect that is the n-th in a row since the last success or user
\* command (n counted from 0) is scheduled with delay
\* min(baseDelayUnforced * 1.5^n, maxDelay) when unforced and with
\* baseDelayForced when forced, and no delay exceeds maxDelay.
C12_DelayOfNthReconnect ==
  \A t \in timers :
    t.kind = "reconnect" =>
      /\ t.delay <= Ms(maxDelay)
      /\ t.force => t.delay = Ms(baseDelayForced)
      /\ (~t.force /\ streak >= 1) =>
           t.delay = reconnectDelay(baseDelayUnforced, streak - 1)

\* C13: when the credential request is rejected, connect() ends with
\* connecting and connected false, onError has been invoked exactly once for
\* the attempt and no reconnect is scheduled.
C13_RejectedCredentialIsFatal ==
  (op.name = "fetchEphemeralKey" /\ ~op.started) =>
    /\ ~state.isConnecting
    /\ ~state.isConnected
    /\ Cardinality({i \in DOMAIN log : log[i].k = "onError"}) = 1
    /\ \A i \in DOMAIN log : log[i].k # "setTimeout"

\* C14: a failed credential fetch or a refused SDP offer ends the attempt with
\* connecting and connected false and onError invoked; it schedules no reconnect
\* when the session is manually disconnected, and otherwise (page visible) it
\* schedules one or raises the terminal error.
C14_NegotiationErrorTriggersPolicy ==
  (op.name \in {"fetchEphemeralKey", "sdp"} /\ op.src = "connect" /\ ~op.started) =>
    /\ ~state.isConnecting
    /\ ~state.isConnected
    /\ \E i \in DOMAIN log : log[i].k = "onError"
    /\ state.isManuallyDisconnected => \A i \in DOMAIN log : log[i].k # "setTimeout"
    /\ (~state.isManuallyDisconnected /\ isPageVisible) =>
         \E i \in DOMAIN log :
           \/ log[i].k = "setTimeout"
           \/ log[i].k = "updateState" /\ log[i].v = {"connectionAttempts", "error"}

\* C15: when the microphone is refused during connect(), the error is reported
\* through onError and no reconnect is scheduled.
C15_MicrophoneErrorNotRetried ==
  (op.name = "getUserMedia" /\ op.src = "connect" /\ ~op.started) =>
    /\ \E i \in DOMAIN log : log[i].k = "onError"
    /\ \A i \in DOMAIN log : log[i].k # "setTimeout"

\* C16: a startRecording() issued while an earlier one has not completed, or
\* while recording is active, acquires no microphone: at most one acquisition is
\* in flight, and none while recording is active (so no second
\* input_audio_buffer.clear follows).
C16_OneMicrophoneAcquisition ==
  recPending + (IF state.isRecording THEN 1 ELSE 0) <= 1

\* C17: when the page becomes visible while the session, connected before, is
\* neither connected nor connecting nor manually disconnected, the visibility
\* handler starts a connection attempt, and while that attempt is in flight no
\* pending timer of the reconnection code goes ahead with a reconnect of its own.
C17_OneConnectOnVisibilityRestore ==
  [][/\ (/\ wasConnected
         /\ ~isPageVisible
         /\ isPageVisible'
         /\ ~state.isConnected
         /\ ~state.isConnecting
         /\ ~state.isManuallyDisconnected) =>
          (op'.name = "connect" /\ op'.src = "visibility" /\ op'.started)
     /\ (/\ wasConnected
         /\ \E c \in conns : c.src = "visibility"
         /\ op'.name \in {"reconnectTimer", "connect"}
         /\ op'.src = "timer") =>
          ~op'.started]_vars

\* C18: a microphone track is live only while recording is active or an
\* operation that acquires the microphone is still in flight; in particular
\* none is live while the session is connected and not recording.
C18_MicrophoneLiveOnlyWhileRecording ==
  LiveTracks > 0 => (state.isRecording \/ recPending > 0 \/ conns # {})

\* C19: at most one peer connection is open at any time, the ones no
\* reference points to any more included: a connection attempt creates its peer
\* connection only after the previous one has been closed.
C19_AtMostOneOpenTransport ==
  Cardinality({p \in DOMAIN pcs : pcs[p].st = "open"}) + orphanPcs <= 1

\* C20: a malformed inbound frame (not JSON, or without a type field), at
\* the hook's data channel handler or at either handler of the relay, is
\* dropped: the step that processes it calls no callback, sends no frame,
\* changes no state of the hook and none of the relay, and leaves the handlers
\* installed as they were.
C20_MalformedFrameIsDropped ==
  [][(received'.at # "none" /\ Malformed(received'.frame)) =>
       /\ log' = <<>>
       /\ relay'.sent = <<>>
       /\ relay'.session = relay.session
       /\ relay'.searching = relay.searching
       /\ UNCHANGED <<state, documentContext, isPageVisible, peerConnectionRef,
                      dataChannelRef, mediaStreamRef, pcs, orphanPcs, orphanMics,
                      conns, timers, recPending, leaked>>]_vars

C20_Witness ==
  /\ received.at = "dataChannel"
  /\ received.frame.json
  /\ received.frame.type = "undefined"
  /\ op.name = "onmessage"
  /\ ~op.started
  /\ state.isConnected

\* C21: a response.done event whose output contains a transcript, in whichever
\* output item, adds exactly one 'Agent' line to the session's transcript; a
\* response.done without a transcript adds none.
C21_ResponseDoneAddsAgentLine ==
  [][(received'.at = "openAiWs" /\ received'.frame.type = "response.done") =>
       IF received'.frame.body \in {"full", "later"}
         THEN relay'.session.transcript = Append(relay.session.transcript, "Agent")
         ELSE relay'.session.transcript = relay.session.transcript]_vars

\* C22: the relay processes the frames of the OpenAI socket one at a time:
\* while the processing of a frame is not complete (the document search its
\* function call started has not settled and sent its frames upstream), the
\* handler does not begin to process the next frame.
C22_OneFrameAtATime ==
  [][relay.searching > 0 => received'.at # "openAiWs"]_vars

\* The types of the frames the last macrotask sent on a data channel, in order.
SentTypes(l) ==
  LET sends == SelectSeq(l, LAMBDA e : e.k = "send")
  IN [i \in DOMAIN sends |-> sends[i].v.frame.type]

\* C23: stopRecording() while recording leaves no local capture track live,
\* sets isRecording to false and, when the data channel is open, sends exactly
\* input_audio_buffer.commit then response.create; stopRecording() while not
\* recording sends nothing, calls nothing and changes no state.
C23_StopRecordingEffect ==
  [][op'.name = "stopRecording" =>
       IF state.isRecording
         THEN /\ LiveTracks' = 0
              /\ ~state'.isRecording
              /\ (dataChannelRef > 0 /\ pcs[dataChannelRef].dc = "open") =>
                   SentTypes(log') = <<"input_audio_buffer.commit", "response.create">>
         ELSE /\ log' = <<>>
              /\ UNCHANGED <<state, documentContext, isPageVisible, peerConnectionRef,
                             dataChannelRef, mediaStreamRef, pcs, orphanPcs, orphanMics,
                             conns, timers, recPending, leaked>>]_vars

\* C24: after disconnect(), and until the user calls connect() again, the
\* session stays idle and manually disconnected: a connect() that was in flight
\* when disconnect() ran neither marks the session connected, nor stores
\* transport handles in the refs, nor calls onStatusChange(true).
C24_InFlightConnectHonoursDisconnect ==
  disconnectRequested =>
    /\ ~state.isConnected
    /\ state.isManuallyDisconnected
    /\ peerConnectionRef = 0
    /\ dataChannelRef <= 0
    /\ \A i \in DOMAIN log : ~(log[i].k = "onStatusChange" /\ log[i].v = TRUE)

\* C25: when the peer connection of a connected session, not manually
\* disconnected and with the page visible, reports ICE state disconnected or
\* failed, or connection state failed, the handler leaves the session with
\* isConnected false, onStatusChange(false) delivered and a reconnect scheduled
\* or the terminal error set.
C25_TransportLossStartsReconnect ==
  [][(/\ state.isConnected
      /\ ~state.isManuallyDisconnected
      /\ isPageVisible
      /\ peerConnectionRef > 0
      /\ \/ /\ op'.name = "oniceconnectionstatechange"
            /\ pcs'[peerConnectionRef].ice \in {"disconnected", "failed", "closed"}
         \/ op'.name = "onconnectionstatechange") =>
       /\ ~state'.isConnected
       /\ \E i \in DOMAIN log' : log'[i].k = "onStatusChange" /\ log'[i].v = FALSE
       /\ (timers' # {} \/ state'.error = "reconnect_failed")]_vars

\* C26: when the establishment wait of createRealtimeConnection ended with the
\* ICE connection failed, disconnected or closed, and no event of that failure
\* is still to be delivered to the handlers, connect() does not leave the
\* session marked connected with no reconnect pending.
C26_ConnectedOnlyWithUsableTransport ==
  (/\ op.name = "connected"
   /\ peerConnectionRef > 0
   /\ pcs[peerConnectionRef].ice \in {"failed", "disconnected", "closed"}
   /\ ~pcs[peerConnectionRef].csPending) =>
    (~state.isConnected \/ timers # {})

\* C27: when createRealtimeConnection has failed after it created the peer
\* connection (microphone refused, SDP exchange rejected), no peer connection
\* of the failed attempt is left open and none of its microphone tracks live.
C27_FailedAttemptIsTornDown ==
  (op.name \in {"getUserMedia", "sdp"} /\ op.src = "connect" /\ ~op.started) =>
    (orphanPcs = 0 /\ orphanMics = 0)

\* C28: every response.function_call_arguments.done event that names
\* search_document, its arguments parsable or not, starts one lookup, and every
\* lookup that settles sends upstream exactly one conversation.item.create
\* followed by exactly one response.create.
C28_OneFunctionOutputPerCall ==
  [][/\ (/\ received'.at = "openAiWs"
         /\ received'.frame.type = "response.function_call_arguments.done"
         /\ received'.frame.body \in {"none", "full"}) =>
          relay'.searching = relay.searching + 1
     /\ relay'.searching < relay.searching =>
          relay'.sent = <<[to |-> "openai", type |-> "conversation.item.create"],
                          [to |-> "openai", type |-> "response.create"]>>]_vars

\* C29: every open client socket of the relay has its own entry in the
\* sessions map: the entry under its session id is its own session, whatever
\* other sockets were accepted or closed meanwhile.
C29_OwnRegistryEntry ==
  \A c \in registry.open :
    /\ c.sessionId \in DOMAIN registry.sessions
    /\ registry.sessions[c.sessionId] = c.id

\* C30: the visibility observer starts a connection attempt only for a session
\* that was connected before; in particular, as long as the user has never
\* called connect(), a page that becomes visible starts none.
C30_VisibilityReconnectsOnlyFormerSession ==
  (op.name = "connect" /\ op.src = "visibility" /\ op.started) =>
    (connectRequested /\ wasConnected)

====
